---------------------------- MODULE Spec2Model ----------------------------
(***************************************************************************)
(* Model of the seasonality engine of the stats-service:                   *)
(*   seasonality/schema_adapter.py, seasonality/utils.py, the five index   *)
(*   methods and seasonality/all_seasonality_indices.py.                   *)
(*                                                                         *)
(* Numbers.  A float is modelled as an exact rational <<n, d>> in lowest   *)
(* terms with d > 0, extended with the IEEE specials the code tests for:   *)
(*   <<0, 0>> NaN,  <<1, 0>> +inf,  <<-1, 0>> -inf.                        *)
(* Python's None (the JSON null) is the separate value <<0, -1>>.          *)
(* Rounding error of binary floats is not modelled: "equal to 100" and     *)
(* "sums to 1200" are statements about the exact values.  log and exp of   *)
(* the fallback trend are evaluated to a mantissa of MantissaSteps steps   *)
(* per binade (see Log2Q, Exp2Q).  Signed zeros are not distinguished.     *)
(*                                                                         *)
(* Raw cells.  A raw cell of the request is modelled by its text, as       *)
(* astype(str) shows it: "10", "abc", "2023-01", "None".                   *)
(***************************************************************************)
EXTENDS Integers, Sequences, FiniteSets, TLC

(***************************************************************************)
(* Extended rational arithmetic (numpy / pandas float semantics).          *)
(***************************************************************************)
NaN == <<0, 0>>
PosInf == <<1, 0>>
NegInf == <<-1, 0>>
None == <<0, -1>>

Abs(i) == IF i < 0 THEN -i ELSE i
Sign(i) == IF i < 0 THEN -1 ELSE IF i > 0 THEN 1 ELSE 0

RECURSIVE GCD(_, _)
GCD(a, b) == IF b = 0 THEN a ELSE GCD(b, a % b)

\* <<n, d>> with d # 0, in lowest terms with a positive denominator.
Norm(n, d) ==
    LET g == GCD(Abs(n), Abs(d))
        s == IF d < 0 THEN -1 ELSE 1
    IN  <<s * (n \div g), s * (d \div g)>>

R(i) == <<i, 1>>
IsNone(x) == x[2] < 0
IsNaN(x) == x = NaN
IsInf(x) == x[2] = 0 /\ x[1] # 0
IsFinite(x) == x[2] > 0
SignOf(x) == Sign(x[1])

Neg(x) == <<-x[1], x[2]>>

Add(x, y) ==
    IF IsNaN(x) \/ IsNaN(y) THEN NaN
    ELSE IF IsInf(x) THEN (IF IsInf(y) /\ y # x THEN NaN ELSE x)
    ELSE IF IsInf(y) THEN y
    ELSE LET g == GCD(x[2], y[2])
         IN  Norm(x[1] * (y[2] \div g) + y[1] * (x[2] \div g), x[2] * (y[2] \div g))

Sub(x, y) == Add(x, Neg(y))

Mul(x, y) ==
    IF IsNaN(x) \/ IsNaN(y) THEN NaN
    ELSE IF IsInf(x) \/ IsInf(y)
         THEN (IF SignOf(x) * SignOf(y) = 0 THEN NaN ELSE <<SignOf(x) * SignOf(y), 0>>)
    ELSE LET g1 == GCD(Abs(x[1]), y[2])
             g2 == GCD(Abs(y[1]), x[2])
         IN  <<(x[1] \div g1) * (y[1] \div g2), (x[2] \div g2) * (y[2] \div g1)>>

\* Float division: x / 0 is +-inf, 0 / 0 and inf / inf are NaN.
Div(x, y) ==
    IF IsNaN(x) \/ IsNaN(y) THEN NaN
    ELSE IF IsInf(x) THEN (IF IsInf(y) THEN NaN
                           ELSE <<SignOf(x) * (IF SignOf(y) < 0 THEN -1 ELSE 1), 0>>)
    ELSE IF IsInf(y) THEN R(0)
    ELSE IF y[1] = 0 THEN (IF x[1] = 0 THEN NaN ELSE <<SignOf(x), 0>>)
    ELSE Mul(x, Norm(y[2], y[1]))

\* x < y on non-NaN values.
Less(x, y) ==
    IF IsInf(x) \/ IsInf(y)
    THEN (IF IsInf(x) /\ IsInf(y) THEN x[1] < y[1]
          ELSE IF IsInf(x) THEN x[1] < 0 ELSE y[1] > 0)
    ELSE x[1] * y[2] < y[1] * x[2]


\* The function f over 1 .. n as a sequence of evaluated entries (arrays are held by
\* value: an entry is computed once, not at every read).
Vec(f) == f \o <<>>

\* floor of a finite rational.
Floor(x) == x[1] \div x[2]

RECURSIVE SumSeq(_)
SumSeq(s) == IF Len(s) = 0 THEN R(0) ELSE Add(Head(s), SumSeq(Tail(s)))

NotNaNSeq(s) == SelectSeq(s, LAMBDA v : ~IsNaN(v))

\* numpy.nansum: NaN entries count as zero.
NanSum(s) == SumSeq(NotNaNSeq(s))

\* pandas Series.mean / GroupBy.mean (skipna): NaN when nothing is left.
NanMean(s) ==
    LET v == NotNaNSeq(s)
    IN  IF Len(v) = 0 THEN NaN ELSE Div(SumSeq(v), R(Len(v)))

RECURSIVE InsertNum(_, _)
InsertNum(sorted, x) ==
    IF Len(sorted) = 0 THEN <<x>>
    ELSE IF Less(x, Head(sorted)) THEN <<x>> \o sorted
    ELSE <<Head(sorted)>> \o InsertNum(Tail(sorted), x)

RECURSIVE SortNums(_)
SortNums(s) == IF Len(s) = 0 THEN <<>> ELSE InsertNum(SortNums(Tail(s)), Head(s))

\* pandas GroupBy.median / numpy.nanmedian: the middle of the non-NaN values.
NanMedian(s) ==
    LET v == SortNums(NotNaNSeq(s))
        n == Len(v)
    IN  IF n = 0 THEN NaN
        ELSE IF n % 2 = 1 THEN v[(n + 1) \div 2]
        ELSE Div(Add(v[n \div 2], v[n \div 2 + 1]), R(2))

(***************************************************************************)
(* Bounds of the model.                                                    *)
(***************************************************************************)
\* Calendar years a year-month text of the input may name: 2023 .. 2023 + NumYears - 1.
NumYears == 2
\* Integers a numeric text of the input may spell: NumLo .. NumHi.
NumHi == 16
\* Mantissa steps per binade to which log2 and exp2 are evaluated.
MantissaSteps == 4
\* Longest block of consecutive months one municipality contributes.
MaxMonths == 14
\* Clock ticks that may pass during the runs.
MaxClock == 2

Years == 2023 .. (2023 + NumYears - 1)
NumRange == (0 - 5) .. NumHi
Months == 1 .. 12

(***************************************************************************)
(* Texts: year-month and number parsing (pandas to_datetime, to_numeric).  *)
(***************************************************************************)
NaT == 0 - 1
\* A first-of-month timestamp is the ordinal year * 12 + (month - 1).
DateOf(year, month) == year * 12 + (month - 1)
YearOf(date) == date \div 12
MonthOf(date) == (date % 12) + 1

\* str of a year-month as the request spells it, "YYYY-MM".
YmText(year, month) ==
    ToString(year) \o "-" \o (IF month < 10 THEN "0" ELSE "") \o ToString(month)

\* pd.to_datetime(text + "-01", format="%Y-%m-%d", errors="coerce"): the first of
\* the month the text names, NaT for a text that names none.
to_datetime(text) ==
    LET hits == {ym \in Years \X Months : text = YmText(ym[1], ym[2])}
    IN  IF hits = {} THEN NaT
        ELSE LET ym == CHOOSE h \in hits : TRUE IN DateOf(ym[1], ym[2])


\* Mutant: a text that spells no number becomes 0 instead of NaN.
to_numeric_ZeroOnError(text) ==
    LET hits == {n \in NumRange : text = ToString(n)}
    IN  IF hits = {} THEN R(0) ELSE R(CHOOSE n \in hits : TRUE)

\* pd.to_numeric(text, errors="coerce"): the number the text spells, else NaN.
to_numeric(text) ==
    LET hits == {n \in NumRange : text = ToString(n)}
    IN  IF hits = {} THEN NaN ELSE R(CHOOSE n \in hits : TRUE)

(***************************************************************************)
(* Data frames.  A frame is [cols |-> the column names, rows |-> the rows   *)
(* in index order]; a canonical or prepared row is a record with the       *)
(* fields date, municipality, y, trend_hat, month, time_index, of which    *)
(* only the fields named in cols are columns of the frame.                 *)
(***************************************************************************)
\* Python's order of the municipality texts the inputs use (str.__lt__).
NameOrder == <<"A", "A B", "A_B", "B", "OVERALL">>
NameRank(name) == CHOOSE i \in 1 .. Len(NameOrder) : NameOrder[i] = name
StrLess(a, b) == NameRank(a) < NameRank(b)

Column(rows, field) == Vec([i \in 1 .. Len(rows) |-> rows[i][field]])

MunicipalityDateLess(a, b) ==
    \/ StrLess(a.municipality, b.municipality)
    \/ a.municipality = b.municipality /\ a.date < b.date

DateLess(a, b) == a.date < b.date

\* The sort key's order: by = <<"municipality", "date">> or <<"date">>.
RowLess(a, b, by) == IF Len(by) = 2 THEN MunicipalityDateLess(a, b) ELSE DateLess(a, b)

\* Stable insertion of x behind every element that is not greater than it.
RECURSIVE InsertRow(_, _, _)
InsertRow(sorted, x, by) ==
    IF Len(sorted) = 0 THEN <<x>>
    ELSE IF RowLess(x, sorted[Len(sorted)], by)
         THEN InsertRow(SubSeq(sorted, 1, Len(sorted) - 1), x, by) \o <<sorted[Len(sorted)]>>
    ELSE sorted \o <<x>>

\* A stable sort (numpy lexsort / mergesort): equal keys keep their order.
RECURSIVE StableSort(_, _)
StableSort(rows, by) ==
    IF Len(rows) = 0 THEN <<>>
    ELSE InsertRow(StableSort(SubSeq(rows, 1, Len(rows) - 1), by), rows[Len(rows)], by)

MinOf(S) == CHOOSE x \in S : \A y \in S : x <= y


\* Mutant: the month enters 1-based, the count starts at 1.
prepare_monthly_OneBased(df) ==
    LET sorted == StableSort(df.rows, <<"municipality", "date">>)
        n == Len(sorted)
        first_year_in_series ==
            IF n = 0 THEN 0 ELSE MinOf({YearOf(sorted[i].date) : i \in 1 .. n})
    IN  [cols |-> df.cols \cup {"month", "time_index"},
         rows |-> Vec([i \in 1 .. n |->
                     [sorted[i] EXCEPT
                        !.month = MonthOf(sorted[i].date),
                        !.time_index =
                            (YearOf(sorted[i].date) - first_year_in_series) * 12
                            + MonthOf(sorted[i].date)]])]

\* Mutant: the first year is taken per municipality, not over the whole frame.
prepare_monthly_PerGroupYear(df) ==
    LET sorted == StableSort(df.rows, <<"municipality", "date">>)
        n == Len(sorted)
        first_year(mun) ==
            MinOf({YearOf(sorted[i].date) : i \in {j \in 1 .. n : sorted[j].municipality = mun}})
    IN  [cols |-> df.cols \cup {"month", "time_index"},
         rows |-> Vec([i \in 1 .. n |->
                     [sorted[i] EXCEPT
                        !.month = MonthOf(sorted[i].date),
                        !.time_index =
                            (YearOf(sorted[i].date) - first_year(sorted[i].municipality)) * 12
                            + (MonthOf(sorted[i].date) - 1)]])]

\* utils.prepare_monthly
prepare_monthly(df) ==
    LET sorted == IF "municipality" \in df.cols
                  THEN StableSort(df.rows, <<"municipality", "date">>)
                  ELSE StableSort(df.rows, <<"date">>)
        n == Len(sorted)
        \* .min() of no rows is NaN; with no rows nothing reads it.
        first_year_in_series ==
            IF n = 0 THEN 0 ELSE MinOf({YearOf(sorted[i].date) : i \in 1 .. n})
    IN  [cols |-> df.cols \cup {"month", "time_index"},
         rows |-> Vec([i \in 1 .. n |->
                     [sorted[i] EXCEPT
                        !.month = MonthOf(sorted[i].date),
                        !.time_index =
                            (YearOf(sorted[i].date) - first_year_in_series) * 12
                            + (MonthOf(sorted[i].date) - 1)]])]


\* Mutant: np.sum for np.nansum, so one NaN entry makes the total NaN.
scale_base100_PlainSum(seasonal_index) ==
    LET total == SumSeq(seasonal_index)
    IN  IF (~IsFinite(total)) \/ total = R(0)
        THEN seasonal_index
        ELSE Vec([i \in 1 .. Len(seasonal_index) |->
                     Mul(seasonal_index[i], Div(R(1200), total))])

\* utils.scale_base100_to_sum1200
scale_base100_to_sum1200(seasonal_index) ==
    LET total == NanSum(seasonal_index)
    IN  IF (~IsFinite(total)) \/ total = R(0)
        THEN seasonal_index
        ELSE Vec([i \in 1 .. Len(seasonal_index) |->
                     Mul(seasonal_index[i], Div(R(1200), total))])


\* Mutant: only NaN is replaced, an infinite value passes.
json_safe_NanOnly(value) == IF IsNaN(value) THEN None ELSE value

\* utils.json_safe (of a float)
json_safe(value) == IF IsNaN(value) \/ IsInf(value) THEN None ELSE value

\* utils.json_safe_list
json_safe_list(values) == Vec([i \in 1 .. Len(values) |-> json_safe(values[i])])


\* Mutant: rolling(window, min_periods=1), the mean of whatever the window holds.
RollingMean_MinPeriods1(series, window) ==
    Vec([i \in 1 .. Len(series) |->
            LET from == IF i < window THEN 1 ELSE i - window + 1
            IN  Div(SumSeq(SubSeq(series, from, i)), R(i - from + 1))])

\* Series.rolling(window, center=False).mean(): the mean of the window values ending
\* at position i, NaN until the window is full.
RollingMean(series, window) ==
    Vec([i \in 1 .. Len(series) |->
            IF i < window THEN NaN
            ELSE Div(SumSeq(SubSeq(series, i - window + 1, i)), R(window))])

ValueError == <<"ValueError">>


\* Mutant: the plain trailing rolling mean, not averaged with its forward shift.
centered_moving_average_NoShift(series, window) == RollingMean(series, window)

\* utils.centered_moving_average_even_window
centered_moving_average_even_window(series, window) ==
    IF window % 2 # 0 THEN ValueError
    ELSE LET moving_average == RollingMean(series, window)
             n == Len(series)
             \* .shift(-1): the value of the next position, NaN at the end
             shifted == Vec([i \in 1 .. n |-> IF i < n THEN moving_average[i + 1] ELSE NaN])
         IN  Vec([i \in 1 .. n |-> Div(Add(moving_average[i], shifted[i]), R(2))])

\* GroupBy(month)[values]: per calendar month 1 .. 12 the values of that month's
\* rows, in row order (none for a month without rows).
ByMonth(months, values) ==
    Vec([m \in 1 .. 12 |->
            LET of_month == SelectSeq(Vec([i \in 1 .. Len(values) |-> <<months[i], values[i]>>]),
                                      LAMBDA p : p[1] = m)
            IN  Vec([k \in 1 .. Len(of_month) |-> of_month[k][2]])])

\* GroupBy(month)[values].mean().reindex(range(1, 13)): NaN for a month without rows
\* or with NaN values only.
MeanByMonth(months, values) ==
    LET of_month == ByMonth(months, values)
    IN  Vec([m \in 1 .. 12 |-> NanMean(of_month[m])])

\* GroupBy(month)[values].median().reindex(range(1, 13))
MedianByMonth(months, values) ==
    LET of_month == ByMonth(months, values)
    IN  Vec([m \in 1 .. 12 |-> NanMedian(of_month[m])])

Times100(arr) == Vec([i \in 1 .. Len(arr) |-> Mul(R(100), arr[i])])

\* Series.replace([inf, -inf], nan)
ReplaceInf(arr) == Vec([i \in 1 .. Len(arr) |-> IF IsInf(arr[i]) THEN NaN ELSE arr[i]])

ElemDiv(a, b) == Vec([i \in 1 .. Len(a) |-> Div(a[i], b[i])])

(***************************************************************************)
(* The five index methods.  Each takes the prepared frame of one group and *)
(* returns an array of 12 floats.                                          *)
(***************************************************************************)
\* simple_averages.simple_averages
simple_averages(df) ==
    LET y == Column(df.rows, "y")
        overall_mean == NanMean(y)
        month_means == MeanByMonth(Column(df.rows, "month"), y)
        si == Vec([m \in 1 .. 12 |-> Div(month_means[m], overall_mean)])
    IN  scale_base100_to_sum1200(Times100(si))

\* The lower clip of the observed values, 1e-9 = 1 / ClipDen.
ClipDen == 1000000000
\* Series.clip(lower=1e-9): y < 1 / ClipDen  iff  n * ClipDen < d.
ClipLower(y) == IF y[1] <= (y[2] - 1) \div ClipDen THEN <<1, ClipDen>> ELSE y

Pow2(k) == IF k >= 0 THEN <<2 ^ k, 1>> ELSE <<1, 2 ^ (0 - k)>>

\* floor(log2(n / d)) of a positive rational.
RECURSIVE ILog2(_, _)
ILog2(n, d) ==
    IF n >= 2 * d THEN ILog2(n, 2 * d) + 1
    ELSE IF n < d THEN ILog2(2 * n, d) - 1
    ELSE 0

\* np.log of a positive float, to base 2 (a change of base scales intercept and
\* slope of the fit alike and leaves the fitted trend unchanged), evaluated to
\* MantissaSteps steps per binade: for 2^k <= x < 2^(k+1) the value is
\* k + floor((x / 2^k - 1) * MantissaSteps) / MantissaSteps.
Log2Q(x) ==
    LET k == ILog2(x[1], x[2])
        frac == Sub(Mul(x, Pow2(0 - k)), R(1))
    IN  Add(R(k), Norm(Floor(Mul(frac, R(MantissaSteps))), MantissaSteps))

\* np.exp, to base 2, the inverse of Log2Q on its values: for k <= r < k + 1 the
\* value is 2^k * (1 + floor((r - k) * MantissaSteps) / MantissaSteps).
Exp2Q(r) ==
    LET k == Floor(r)
        j == Floor(Mul(Sub(r, R(k)), R(MantissaSteps)))
    IN  Mul(Pow2(k), Norm(MantissaSteps + j, MantissaSteps))

RECURSIVE IntSum(_)
IntSum(s) == IF Len(s) = 0 THEN 0 ELSE Head(s) + IntSum(Tail(s))

\* np.linalg.lstsq(design_matrix, log_y)[0] for the design [1, time_index]: the
\* least-squares <<intercept, slope>>, of minimum norm where the time indices are
\* all equal (rank 1), and zeros for no rows.
LstSq(t, logy) ==
    LET n == Len(t)
        St == IntSum(t)
        Stt == IntSum(Vec([i \in 1 .. n |-> t[i] * t[i]]))
        Sy == SumSeq(logy)
        Sty == SumSeq(Vec([i \in 1 .. n |-> Mul(R(t[i]), logy[i])]))
        det == n * Stt - St * St
    IN  IF n = 0 THEN <<R(0), R(0)>>
        ELSE IF det = 0
        THEN LET a == Div(Div(Sy, R(n)), R(1 + t[1] * t[1]))
             IN  <<a, Mul(R(t[1]), a)>>
        ELSE LET slope == Div(Sub(Mul(R(n), Sty), Mul(R(St), Sy)), R(det))
             IN  <<Div(Sub(Sy, Mul(slope, R(St))), R(n)), slope>>

\* ratio_to_trend._fallback_trend_hat_log_linear
fallback_trend_hat_log_linear(rows) ==
    LET observed_values == Vec([i \in 1 .. Len(rows) |-> ClipLower(rows[i].y)])
        time_index == Column(rows, "time_index")
        fit == LstSq(time_index, Vec([i \in 1 .. Len(rows) |-> Log2Q(observed_values[i])]))
    IN  Vec([i \in 1 .. Len(rows) |-> Exp2Q(Add(fit[1], Mul(fit[2], R(time_index[i]))))])

\* ratio_to_trend.ratio_to_trend
ratio_to_trend(df) ==
    LET trend_hat == IF "trend_hat" \notin df.cols
                     THEN fallback_trend_hat_log_linear(df.rows)
                     \* pd.to_numeric of a column that holds floats already
                     ELSE Column(df.rows, "trend_hat")
        ratio_observed_to_trend == ReplaceInf(ElemDiv(Column(df.rows, "y"), trend_hat))
        mean_ratio_by_calendar_month ==
            MeanByMonth(Column(df.rows, "month"), ratio_observed_to_trend)
    IN  scale_base100_to_sum1200(Times100(mean_ratio_by_calendar_month))

\* DataFrame.sort_values("date") of one column is numpy's quicksort, which is not
\* stable: rows of equal date come out in an order the build decides.  The set of
\* every date-sorted arrangement of the rows.
RECURSIVE DateSortedOrders(_, _)
DateSortedOrders(rows, left) ==
    IF left = {} THEN {<<>>}
    ELSE LET first == {i \in left : \A j \in left : rows[i].date <= rows[j].date}
         IN  UNION {{<<rows[i]>> \o rest : rest \in DateSortedOrders(rows, left \ {i})}
                    : i \in first}

sort_values_date(rows) == DateSortedOrders(rows, 1 .. Len(rows))

\* ratio_to_moving_average.ratio_to_moving_average, after its sort: `sorted` is the
\* arrangement sort_values("date") produced.
ratio_to_moving_average(sorted) ==
    LET observed_monthly_values == Column(sorted, "y")
        centered_moving_average_12 ==
            centered_moving_average_even_window(observed_monthly_values, 12)
        ratio_observed_to_trend ==
            ReplaceInf(ElemDiv(observed_monthly_values, centered_moving_average_12))
        \* .dropna(): the positions that hold a ratio
        valid == SelectSeq(Vec([i \in 1 .. Len(sorted) |-> i]),
                           LAMBDA i : ~IsNaN(ratio_observed_to_trend[i]))
        mean_ratio_by_calendar_month ==
            MeanByMonth(Vec([k \in 1 .. Len(valid) |-> sorted[valid[k]].month]),
                    Vec([k \in 1 .. Len(valid) |-> ratio_observed_to_trend[valid[k]]]))
    IN  scale_base100_to_sum1200(Times100(mean_ratio_by_calendar_month))

\* Mutant: behind a month without a value the chain resumes from 100.
RECURSIVE Chain_Resuming(_, _)
Chain_Resuming(average_link_relative_by_month, month_index) ==
    IF month_index = 1 THEN <<R(100)>>
    ELSE LET before == Chain_Resuming(average_link_relative_by_month, month_index - 1)
             average_lr_percent == average_link_relative_by_month[month_index]
             previous == IF IsNaN(before[month_index - 1]) THEN R(100)
                         ELSE before[month_index - 1]
         IN  before \o
             << IF IsNaN(average_lr_percent) \/ average_lr_percent = R(0)
                THEN NaN
                ELSE Mul(previous, Div(average_lr_percent, R(100))) >>

\* The chained index of link_relatives (lines 49-55): January 100, then
\* S_m = S_(m-1) * avgLR_m / 100, NaN where avgLR_m is NaN or 0.
RECURSIVE Chain(_, _)
Chain(average_link_relative_by_month, month_index) ==
    IF month_index = 1 THEN <<R(100)>>
    ELSE LET before == Chain(average_link_relative_by_month, month_index - 1)
             average_lr_percent == average_link_relative_by_month[month_index]
         IN  before \o
             << IF IsNaN(average_lr_percent) \/ average_lr_percent = R(0)
                THEN NaN
                ELSE Mul(before[month_index - 1], Div(average_lr_percent, R(100))) >>


\* Mutant: the chained index is returned without the scaling to sum 1200.
link_relatives_Unscaled(df) ==
    LET metric_values == Column(df.rows, "y")
        link_relative_percent ==
            Vec([i \in 1 .. Len(metric_values) |->
                    IF i = 1 THEN NaN
                    ELSE IF metric_values[i - 1] # R(0)
                         THEN Mul(Div(metric_values[i], metric_values[i - 1]), R(100))
                         ELSE NaN])
    IN  Chain(MeanByMonth(Column(df.rows, "month"), link_relative_percent), 12)

\* link_relatives lines 17-41: the link relatives LR_t = y_t / y_(t-1) * 100 (NaN for
\* the first row and behind a zero), averaged per calendar month.
average_link_relative_by_month(df) ==
    LET metric_values == Column(df.rows, "y")
        link_relative_percent ==
            Vec([i \in 1 .. Len(metric_values) |->
                    IF i = 1 THEN NaN
                    ELSE IF metric_values[i - 1] # R(0)
                         THEN Mul(Div(metric_values[i], metric_values[i - 1]), R(100))
                         ELSE NaN])
    IN  MeanByMonth(Column(df.rows, "month"), link_relative_percent)

\* link_relatives.link_relatives
link_relatives(df) ==
    scale_base100_to_sum1200(Chain(average_link_relative_by_month(df), 12))

\* Mutant: the monthly medians are divided by the overall median whatever it is.
ratio_to_median_AlwaysDivide(df) ==
    LET monthly_medians == MedianByMonth(Column(df.rows, "month"), Column(df.rows, "y"))
        overall_median == NanMedian(monthly_medians)
    IN  scale_base100_to_sum1200(
            Vec([m \in 1 .. 12 |-> Mul(Div(monthly_medians[m], overall_median), R(100))]))

\* ratio_to_median.ratio_to_median
ratio_to_median(df) ==
    LET monthly_medians == MedianByMonth(Column(df.rows, "month"), Column(df.rows, "y"))
        overall_median == NanMedian(monthly_medians)
        seasonal_index_base100 ==
            IF (~IsFinite(overall_median)) \/ overall_median = R(0)
            THEN monthly_medians
            ELSE Vec([m \in 1 .. 12 |-> Mul(Div(monthly_medians[m], overall_median), R(100))])
    IN  scale_base100_to_sum1200(seasonal_index_base100)

(***************************************************************************)
(* Schema adapter.  A raw frame is [cols |-> the column names of the       *)
(* request's rows, rows |-> the rows], a raw row a record of cell texts    *)
(* with the fields municipality, year_month, m, trend, trend_hat (a field  *)
(* whose name is not in cols is not a column of the frame).                *)
(***************************************************************************)
\* Python's None for an optional column name.
PyNone == "<None>"

\* schema_adapter.to_canonical_monthly_df: [raised |-> the ValueError's message, or
\* "" when it returns, df |-> the frame it returns].
to_canonical_monthly_df(raw_df, metric_col, municipality_col, year_month_col, trend_hat_col) ==
    LET \* df.columns once date, municipality and y are assigned (lines 20-23)
        columns == raw_df.cols \cup {"date", "municipality", "y"}
        date(row) == to_datetime(row[year_month_col])
        municipality(row) == row[municipality_col]
        y(row) == to_numeric(row[metric_col])
        \* df[trend_hat_col], read after the three assignments: "y" and "municipality"
        \* name the assigned columns
        trend_cell(row) ==
            IF trend_hat_col = "y" THEN y(row)
            ELSE IF trend_hat_col = "municipality" THEN to_numeric(municipality(row))
            ELSE to_numeric(row[trend_hat_col])
        with_trend == trend_hat_col # PyNone \/ "trend_hat" \in raw_df.cols
        \* a raw trend_hat column is kept as it is; ratio_to_trend (lines 38-41)
        \* coerces it with pd.to_numeric, which is done here
        trend_hat(row) ==
            IF trend_hat_col # PyNone THEN trend_cell(row)
            ELSE IF "trend_hat" \in raw_df.cols THEN to_numeric(row.trend_hat)
            ELSE NaN
        keep_cols == {"date", "municipality", "y"}
                        \cup (IF with_trend THEN {"trend_hat"} ELSE {})
        all_rows == Vec([i \in 1 .. Len(raw_df.rows) |->
                        [date |-> date(raw_df.rows[i]),
                         municipality |-> municipality(raw_df.rows[i]),
                         y |-> y(raw_df.rows[i]),
                         trend_hat |-> trend_hat(raw_df.rows[i]),
                         month |-> 0, time_index |-> 0]])
        no_df == [cols |-> {}, rows |-> <<>>]
    IN  IF municipality_col \notin raw_df.cols
        THEN [raised |-> "Missing required column: " \o municipality_col, df |-> no_df]
        ELSE IF year_month_col \notin raw_df.cols
        THEN [raised |-> "Missing required column: " \o year_month_col, df |-> no_df]
        ELSE IF metric_col \notin raw_df.cols
        THEN [raised |-> "Missing required metric column: " \o metric_col, df |-> no_df]
        ELSE IF trend_hat_col # PyNone /\ trend_hat_col \notin columns
        THEN [raised |-> "trend_hat_col='" \o trend_hat_col \o "' not found in dataframe.",
              df |-> no_df]
        ELSE [raised |-> "",
              \* .dropna(subset=["date", "y"])
              df |-> [cols |-> keep_cols,
                      rows |-> SelectSeq(all_rows,
                                         LAMBDA row : row.date # NaT /\ ~IsNaN(row.y))]]

(***************************************************************************)
(* Orchestrator helpers.                                                   *)
(***************************************************************************)
\* The characters of the municipality texts the inputs use.
Spell(text) ==
    IF text = "A B" THEN <<"A", " ", "B">>
    ELSE IF text = "A_B" THEN <<"A", "_", "B">>
    ELSE <<text>>

\* str.isalnum of one character (a text of letters counts as one alphanumeric piece).
IsAlnum(ch) == ch \notin {" ", "_"}

RECURSIVE JoinText(_)
JoinText(parts) == IF Len(parts) = 0 THEN "" ELSE Head(parts) \o JoinText(Tail(parts))

\* utils.safe_filename_component
safe_filename_component(text) ==
    JoinText(Vec([i \in 1 .. Len(Spell(text)) |->
                     IF IsAlnum(Spell(text)[i]) THEN Spell(text)[i] ELSE "_"]))

\* DataFrame.groupby("municipality"): the <<name, frame>> pairs in the order of
\* the names, each frame with that municipality's rows in frame order.
RECURSIVE NamesInOrder(_, _)
NamesInOrder(names, k) ==
    IF k > Len(NameOrder) THEN <<>>
    ELSE (IF NameOrder[k] \in names THEN <<NameOrder[k]>> ELSE <<>>)
         \o NamesInOrder(names, k + 1)

groupby_municipality(df) ==
    LET names == NamesInOrder({df.rows[i].municipality : i \in 1 .. Len(df.rows)}, 1)
    IN  Vec([k \in 1 .. Len(names) |->
               <<names[k],
                 [cols |-> df.cols,
                  rows |-> SelectSeq(df.rows, LAMBDA row : row.municipality = names[k])]>>])

\* The clock counts ticks of 1 / TicksPerSecond seconds.
TicksPerSecond == 2

\* datetime.now().strftime("%Y-%m-%d_%H-%M-%S"): the clock cut to whole seconds.
strftime(now) ==
    LET second == now \div TicksPerSecond
    IN  "2026-01-01_00-00-" \o (IF second < 10 THEN "0" ELSE "") \o ToString(second)


\* Mutant: the last component is left out.
path_join_DropLast(a, b) == a

\* os.path.join
path_join(a, b) == a \o "/" \o b

PlotNames == <<"A_simple_averages", "B_ratio_to_trend", "C_ratio_to_moving_average",
               "D_link_relatives", "E_ratio_to_median">>

\* dict[key] = value on an insertion-ordered dict held as <<key, value>> pairs.
DictSet(dict, key, value) ==
    IF \E i \in 1 .. Len(dict) : dict[i][1] = key
    THEN Vec([i \in 1 .. Len(dict) |-> IF dict[i][1] = key THEN <<key, value>> ELSE dict[i]])
    ELSE Append(dict, <<key, value>>)

DictKeys(dict) == {dict[i][1] : i \in 1 .. Len(dict)}
DictGet(dict, key) == dict[CHOOSE i \in 1 .. Len(dict) : dict[i][1] = key][2]

(***************************************************************************)
(* State.  Requests are handled by compute_seasonality_run, one run per    *)
(* request; the endpoint is a plain def, which the server runs on worker   *)
(* threads, so two runs may interleave.  They share the clock and the      *)
(* file system.                                                            *)
(***************************************************************************)
RunIds == {1, 2}

VARIABLES
    pc,                  \* per run: its position in compute_seasonality_run
    request,             \* per run: raw_df and the column-name arguments
    canonical_dataframe, \* per run: the schema adapter's frame
    monthly_dataframe,   \* per run: the prepared frame
    run_id,              \* per run: the timestamp text
    groups,              \* per run: the <<name, frame>> list of the loop
    loop_index,          \* per run: how many groups the loop has processed
    locals,              \* per run: the loop body's variables after its last pass
    results,             \* per run: the results dict
    returned,            \* per run: what the call returned or raised
    clock,               \* the wall clock, in ticks
    dirs,                \* the directories that exist
    files,               \* path -> the runs that wrote the file, in order
    scale_call           \* a call of scale_base100_to_sum1200: its input and output

run_vars == <<pc, request, canonical_dataframe, monthly_dataframe, run_id, groups,
              loop_index, locals, results, returned>>
fs_vars == <<dirs, files>>
vars == <<run_vars, clock, fs_vars, scale_call>>

NoFrame == [cols |-> {}, rows |-> <<>>]
NoLocals == [municipality_name |-> "", municipality_rows |-> NoFrame,
             index_A |-> <<>>, index_B |-> <<>>, index_C |-> <<>>,
             index_D |-> <<>>, index_E |-> <<>>]
NotReturned == [kind |-> "none"]
NoScaleCall == [called |-> FALSE, input |-> <<>>, output |-> <<>>]

run_dir(r) == path_join(request[r].out_root, run_id[r])
plots_dir(r) == path_join(run_dir(r), "plots")

\* lines 38-44: the schema adapter, whose ValueError ends the run.
Canonicalize(r) ==
    /\ pc[r] = "start"
    /\ LET out == to_canonical_monthly_df(request[r].raw_df, request[r].metric_col,
                                          request[r].municipality_col,
                                          request[r].year_month_col,
                                          request[r].trend_hat_col)
       IN  IF out.raised # ""
           THEN /\ pc' = [pc EXCEPT ![r] = "raised"]
                /\ returned' = [returned EXCEPT ![r] =
                                   [kind |-> "ValueError", message |-> out.raised]]
                /\ UNCHANGED canonical_dataframe
           ELSE /\ pc' = [pc EXCEPT ![r] = "canonical"]
                /\ canonical_dataframe' = [canonical_dataframe EXCEPT ![r] = out.df]
                /\ UNCHANGED returned
    /\ UNCHANGED <<request, monthly_dataframe, run_id, groups, loop_index, locals,
                   results, clock, fs_vars, scale_call>>

\* line 46
Prepare(r) ==
    /\ pc[r] = "canonical"
    /\ monthly_dataframe' =
          [monthly_dataframe EXCEPT ![r] = prepare_monthly(canonical_dataframe[r])]
    /\ pc' = [pc EXCEPT ![r] = "prepared"]
    /\ UNCHANGED <<request, canonical_dataframe, run_id, groups, loop_index, locals,
                   results, returned, clock, fs_vars, scale_call>>

\* lines 48-55: the run directory named after the clock, and the group list.
MakeRunDir(r) ==
    /\ pc[r] = "prepared"
    /\ LET id == strftime(clock)
           dir == path_join(request[r].out_root, id)
       IN  /\ run_id' = [run_id EXCEPT ![r] = id]
           /\ dirs' = dirs \cup {dir, path_join(dir, "plots")}
    /\ results' = [results EXCEPT ![r] = <<>>]
    /\ groups' = [groups EXCEPT ![r] =
                     <<<<"OVERALL", monthly_dataframe[r]>>>>
                        \o groupby_municipality(monthly_dataframe[r])]
    /\ loop_index' = [loop_index EXCEPT ![r] = 0]
    /\ pc' = [pc EXCEPT ![r] = "loop"]
    /\ UNCHANGED <<request, canonical_dataframe, monthly_dataframe, locals, returned,
                   clock, files, scale_call>>

\* open(path, "w") by run r
WriteFiles(old, paths, r) ==
    [p \in (DOMAIN old) \cup paths |->
        IF p \in paths
        THEN (IF p \in DOMAIN old THEN Append(old[p], r) ELSE <<r>>)
        ELSE old[p]]

\* lines 57-119: one pass of the loop over the groups.
ProcessGroup(r) ==
    /\ pc[r] = "loop"
    /\ loop_index[r] < Len(groups[r])
    /\ LET municipality_name == groups[r][loop_index[r] + 1][1]
           municipality_rows == groups[r][loop_index[r] + 1][2]
           safe_municipality_name == safe_filename_component(municipality_name)
           municipality_plot_folder == path_join(plots_dir(r), safe_municipality_name)
       IN  \E sorted \in sort_values_date(municipality_rows.rows) :
             LET index_A == simple_averages(municipality_rows)
                 index_B == ratio_to_trend(municipality_rows)
                 index_C == ratio_to_moving_average(sorted)
                 index_D == link_relatives(municipality_rows)
                 index_E == ratio_to_median(municipality_rows)
             IN  /\ locals' = [locals EXCEPT ![r] =
                        [municipality_name |-> municipality_name,
                         municipality_rows |-> municipality_rows,
                         index_A |-> index_A, index_B |-> index_B, index_C |-> index_C,
                         index_D |-> index_D, index_E |-> index_E]]
                 /\ dirs' = dirs \cup {municipality_plot_folder}
                 /\ files' = WriteFiles(files,
                        {path_join(municipality_plot_folder, PlotNames[k] \o ".png")
                            : k \in 1 .. Len(PlotNames)}, r)
                 /\ results' = [results EXCEPT ![r] =
                        DictSet(@, municipality_name,
                            [A_simple_averages |-> json_safe_list(index_A),
                             B_ratio_to_trend |-> json_safe_list(index_B),
                             C_ratio_to_moving_average |-> json_safe_list(index_C),
                             D_link_relatives |-> json_safe_list(index_D),
                             E_ratio_to_median |-> json_safe_list(index_E),
                             plot_files |->
                                [k \in 1 .. Len(PlotNames) |->
                                    run_id[r] \o "/plots/" \o safe_municipality_name
                                        \o "/" \o PlotNames[k] \o ".png"]])]
    /\ loop_index' = [loop_index EXCEPT ![r] = @ + 1]
    /\ UNCHANGED <<pc, request, canonical_dataframe, monthly_dataframe, run_id, groups,
                   returned, clock, scale_call>>

\* lines 121-132: the rows of seasonality_indices.csv, twelve per entry of results.
csv_rows_of(dict) ==
    Vec([k \in 1 .. 12 * Len(dict) |->
           LET entry == dict[((k - 1) \div 12) + 1]
               month_number == ((k - 1) % 12) + 1
           IN  [municipality |-> entry[1],
                month |-> month_number,
                A_simple_averages |-> entry[2].A_simple_averages[month_number],
                B_ratio_to_trend |-> entry[2].B_ratio_to_trend[month_number],
                C_ratio_to_moving_average |-> entry[2].C_ratio_to_moving_average[month_number],
                D_link_relatives |-> entry[2].D_link_relatives[month_number],
                E_ratio_to_median |-> entry[2].E_ratio_to_median[month_number]]])

\* lines 121-143: after the loop, the CSV file and the return value (csv_rows, the
\* content written to seasonality_indices.csv, is kept beside the returned dict).
SaveCsvAndReturn(r) ==
    /\ pc[r] = "loop"
    /\ loop_index[r] = Len(groups[r])
    /\ dirs' = dirs \cup {run_dir(r)}
    /\ files' = WriteFiles(files, {path_join(run_dir(r), "seasonality_indices.csv")}, r)
    /\ returned' = [returned EXCEPT ![r] =
                       [kind |-> "value",
                        run_id |-> run_id[r],
                        run_dir |-> run_dir(r),
                        metric_col |-> request[r].metric_col,
                        results |-> results[r],
                        csv_rows |-> csv_rows_of(results[r])]]
    /\ pc' = [pc EXCEPT ![r] = "done"]
    /\ UNCHANGED <<request, canonical_dataframe, monthly_dataframe, run_id, groups,
                   loop_index, locals, results, clock, scale_call>>

\* Time passes.  The clock is read by MakeRunDir alone, and only how its reading
\* compares with another run's matters: ticks are taken while a second request is
\* in flight and some run is about to read the clock.
Tick ==
    /\ clock < MaxClock
    /\ \A r \in RunIds : pc[r] # "absent"
    /\ \E r \in RunIds : pc[r] = "prepared"
    /\ clock' = clock + 1
    /\ UNCHANGED <<run_vars, fs_vars, scale_call>>

(***************************************************************************)
(* The requests of the model.                                              *)
(***************************************************************************)
RawRow(municipality, year_month, metric, trend) ==
    [municipality |-> municipality, year_month |-> year_month, m |-> metric,
     trend |-> trend, trend_hat |-> trend]

\* The metric of the i-th month (i = 1, 2, ...) of a block of rows.
PatternValue(pattern, i, month) ==
    CASE pattern = "const" -> 10
      [] pattern = "season" -> 2 + 2 * (month % 3)
      [] pattern = "ramp" -> i
      [] pattern = "zero" -> 0
      [] pattern = "sign" -> IF i % 2 = 1 THEN 5 ELSE 0 - 5
      [] pattern = "dip" -> IF i % 2 = 1 THEN 4 ELSE 0
      [] pattern = "skew" -> IF i % 3 = 1 THEN 0 - 5 ELSE IF i % 3 = 2 THEN 0 ELSE 8

\* n rows of one municipality, one per month from `start` on, latest month first.
Block(municipality, start, n, pattern, trend) ==
    Vec([k \in 1 .. n |->
           LET i == n + 1 - k
               date == start + i - 1
           IN  RawRow(municipality, YmText(YearOf(date), MonthOf(date)),
                      ToString(PatternValue(pattern, i, MonthOf(date))), trend)])

Request(rows, cols, trend_hat_col, out_root) ==
    [raw_df |-> [cols |-> cols, rows |-> rows],
     metric_col |-> "m",
     \* main.py passes these two names
     municipality_col |-> "municipality",
     year_month_col |-> "year_month",
     trend_hat_col |-> trend_hat_col,
     out_root |-> out_root]

RequiredCols == {"municipality", "year_month", "m"}
DefaultRoot == "exports/seasonality"
Jan2023 == DateOf(2023, 1)
BlockLengths == {0, 1, 2, 11, 12, 13, MaxMonths}

\* A second municipality's rows, placed before the first one's.
SecondBlocks ==
    {<<>>, Block("B", Jan2023 + 1, 2, "ramp", ""), Block("OVERALL", Jan2023, 1, "const", ""),
     Block("A B", Jan2023 + 12, 2, "season", "")}

\* Monthly series without a trend column: positive metrics of several shapes.
SeriesRequests ==
    {Request(second \o Block("A", Jan2023 + shift, n, pattern, ""), RequiredCols,
             PyNone, DefaultRoot)
        : second \in SecondBlocks, shift \in {0, 2}, n \in BlockLengths \ {MaxMonths},
          pattern \in {"const", "season"}}
    \cup {Request(Block("A", Jan2023 + shift, n, pattern, ""), RequiredCols, PyNone,
                  DefaultRoot)
            : shift \in {0, 2}, n \in BlockLengths, pattern \in {"const", "season", "ramp"}}
    \cup {Request(Block("A", Jan2023, n, "zero", ""), RequiredCols, PyNone, DefaultRoot)
            : n \in {1, 2, 12}}

\* Series with zero and negative metrics, and a trend the request supplies: by
\* trend_hat_col "trend" or "y", or as a raw column that is itself named trend_hat.
TrendRequests ==
    {Request(Block("A", Jan2023, n, pattern, trend), RequiredCols \cup {"trend"},
             "trend", DefaultRoot)
        : n \in {1, 2, 3, 12, 13}, pattern \in {"const", "sign", "dip", "zero", "skew"},
          trend \in {"2", "0", "abc", "-1"}}
    \cup {Request(Block("A", Jan2023, n, pattern, ""), RequiredCols, "y", DefaultRoot)
            : n \in {2, 12}, pattern \in {"const", "sign", "dip"}}
    \cup {Request(Block("A", Jan2023, n, pattern, trend), RequiredCols \cup {"trend_hat"},
                  PyNone, DefaultRoot)
            : n \in {2, 12}, pattern \in {"const", "dip"}, trend \in {"2", "abc"}}

\* Frames that lack columns, with and without a trend column name.
SchemaRequests ==
    {Request(Block("A", Jan2023, 2, "const", "2"), cols, trend_hat_col, DefaultRoot)
        : cols \in SUBSET {"municipality", "year_month", "m", "trend"},
          trend_hat_col \in {PyNone, "trend", "y"}}

\* Rows the adapter has to judge: a metric that is no number, a year-month that is
\* no month, a null metric, a null year-month.
JunkRows(trend) ==
    {RawRow("A", "2023-05", "abc", trend), RawRow("A", "2023-13", "7", trend),
     RawRow("B", "2023-06", "None", trend), RawRow("A", "None", "8", trend)}

RECURSIVE SeqOfSet(_)
SeqOfSet(S) ==
    IF S = {} THEN <<>>
    ELSE LET x == CHOOSE e \in S : TRUE IN <<x>> \o SeqOfSet(S \ {x})

JunkRequests ==
    {Request(SeqOfSet(junk) \o Block("A", Jan2023, n, "const", "abc"),
             RequiredCols \cup {"trend"}, trend_hat_col, DefaultRoot)
        : junk \in SUBSET JunkRows("abc"), n \in {0, 2, 12},
          trend_hat_col \in {PyNone, "trend"}}

SingleRequests == SeriesRequests \cup TrendRequests \cup SchemaRequests \cup JunkRequests

\* Two requests in flight at once.
TinyRequest(out_root) == Request(Block("A", Jan2023, 1, "const", ""), RequiredCols, PyNone, out_root)

NoRequest == Request(<<>>, {}, PyNone, "")

InitRun(req1, req2, pc2) ==
    /\ pc = [r \in RunIds |-> IF r = 1 THEN "start" ELSE pc2]
    /\ request = [r \in RunIds |-> IF r = 1 THEN req1 ELSE req2]
    /\ canonical_dataframe = [r \in RunIds |-> NoFrame]
    /\ monthly_dataframe = [r \in RunIds |-> NoFrame]
    /\ run_id = [r \in RunIds |-> ""]
    /\ groups = [r \in RunIds |-> <<>>]
    /\ loop_index = [r \in RunIds |-> 0]
    /\ locals = [r \in RunIds |-> NoLocals]
    /\ results = [r \in RunIds |-> <<>>]
    /\ returned = [r \in RunIds |-> NotReturned]
    /\ clock = 0
    /\ dirs = {}
    /\ files = <<>>
    /\ scale_call = NoScaleCall

Init ==
    \/ \E req \in SingleRequests : InitRun(req, NoRequest, "absent")
    \/ \E root \in {DefaultRoot, "exports/other"} :
          InitRun(TinyRequest(DefaultRoot), TinyRequest(root), "start")

Next ==
    \/ \E r \in RunIds : Canonicalize(r)
    \/ \E r \in RunIds : Prepare(r)
    \/ \E r \in RunIds : MakeRunDir(r)
    \/ \E r \in RunIds : ProcessGroup(r)
    \/ \E r \in RunIds : SaveCsvAndReturn(r)
    \/ Tick

Spec == Init /\ [][Next]_vars

(***************************************************************************)
(* scale_base100_to_sum1200 on its own: the arrays it may be handed.       *)
(***************************************************************************)
ScaleEntries == {NaN, R(0), R(100), R(50), R(0 - 50), PosInf, NegInf}
ScaleFill == {NaN, R(100)}
ScaleInputs ==
    {<<a, b, c>> \o [i \in 1 .. 9 |-> fill]
        : a \in ScaleEntries, b \in ScaleEntries, c \in ScaleEntries, fill \in ScaleFill}

InitScale ==
    /\ pc = [r \in RunIds |-> "absent"]
    /\ request = [r \in RunIds |-> NoRequest]
    /\ canonical_dataframe = [r \in RunIds |-> NoFrame]
    /\ monthly_dataframe = [r \in RunIds |-> NoFrame]
    /\ run_id = [r \in RunIds |-> ""]
    /\ groups = [r \in RunIds |-> <<>>]
    /\ loop_index = [r \in RunIds |-> 0]
    /\ locals = [r \in RunIds |-> NoLocals]
    /\ results = [r \in RunIds |-> <<>>]
    /\ returned = [r \in RunIds |-> NotReturned]
    /\ clock = 0
    /\ dirs = {}
    /\ files = <<>>
    /\ \E input \in ScaleInputs :
          scale_call = [called |-> FALSE, input |-> input, output |-> <<>>]

ScaleCall ==
    /\ ~scale_call.called
    /\ scale_call' = [called |-> TRUE, input |-> scale_call.input,
                      output |-> scale_base100_to_sum1200(scale_call.input)]
    /\ UNCHANGED <<run_vars, clock, fs_vars>>

NextScale == ScaleCall

SpecScale == InitScale /\ [][NextScale]_vars

(***************************************************************************)
(* Properties.                                                             *)
(***************************************************************************)
IndexArrays(entry) ==
    <<entry.A_simple_averages, entry.B_ratio_to_trend, entry.C_ratio_to_moving_average,
      entry.D_link_relatives, entry.E_ratio_to_median>>

AllTwelve(arr, v) == Len(arr) = 12 /\ \A i \in 1 .. 12 : arr[i] = v

\* The run has passed the schema adapter without a ValueError.
Canonicalized(r) == pc[r] \in {"canonical", "prepared", "loop", "done"}
\* The run has prepared its frame.
Prepared(r) == pc[r] \in {"prepared", "loop", "done"}
\* The loop body of the run has completed a pass; locals[r] holds its variables.
PassDone(r) == locals[r].municipality_name # ""

\* ---- C1 ----
\* The request of the claim: twelve rows of municipality "A", 2023-01 .. 2023-12, y = 10.
FlatYearRequest ==
    Request(Block("A", Jan2023, 12, "const", ""), RequiredCols, PyNone, DefaultRoot)

FlatYearReturned(r) == returned[r].kind = "value" /\ request[r] = FlatYearRequest

\* C1, as stated: for twelve rows of one municipality "A", one per month of 2023, all
\* with y = 10, the run returns an "OVERALL" record equal to the "A" record, and every
\* one of the five index arrays is twelve times 100.
C1_AllFiveFlat ==
    \A r \in RunIds : FlatYearReturned(r) =>
        LET res == returned[r].results
        IN  /\ DictKeys(res) = {"OVERALL", "A"}
            /\ IndexArrays(DictGet(res, "OVERALL")) = IndexArrays(DictGet(res, "A"))
            /\ \A k \in 1 .. 5 : AllTwelve(IndexArrays(DictGet(res, "A"))[k], R(100))

\* C1, amended: for that request the "OVERALL" and "A" records carry identical index
\* arrays; Simple Averages, Ratio-to-Trend, Link Relatives and Ratio-to-Median are
\* twelve times 100, and Ratio-to-Moving-Average is twelve nulls (twelve rows leave
\* the centred moving average without a value).
C1_FourFlatMovingAverageNull ==
    \A r \in RunIds : FlatYearReturned(r) =>
        LET res == returned[r].results
            arrays == IndexArrays(DictGet(res, "A"))
        IN  /\ DictKeys(res) = {"OVERALL", "A"}
            /\ IndexArrays(DictGet(res, "OVERALL")) = arrays
            /\ \A k \in {1, 2, 4, 5} : AllTwelve(arrays[k], R(100))
            /\ AllTwelve(arrays[3], None)

\* C1 witness: a run of that request has returned.
C1_FlatYearRunReturned == \E r \in RunIds : FlatYearReturned(r)

\* ---- C2 ----
HasAllMonths(rows) == \A m \in Months : \E i \in 1 .. Len(rows) : rows[i].month = m
AllPositive(rows) == \A i \in 1 .. Len(rows) : IsFinite(rows[i].y) /\ rows[i].y[1] > 0
SumsTo1200(arr) == Len(arr) = 12 /\ NanSum(arr) = R(1200)

\* The last pass of the loop ran on a series with every calendar month and only
\* positive values.
FullPositiveSeries(r) ==
    /\ PassDone(r)
    /\ HasAllMonths(locals[r].municipality_rows.rows)
    /\ AllPositive(locals[r].municipality_rows.rows)

\* C2, as stated: on a series with all twelve calendar months and positive y, each of
\* the five methods returns twelve entries whose non-null entries sum to 1200.
C2_AllFiveSumTo1200 ==
    \A r \in RunIds : FullPositiveSeries(r) =>
        /\ SumsTo1200(locals[r].index_A)
        /\ SumsTo1200(locals[r].index_B)
        /\ SumsTo1200(locals[r].index_C)
        /\ SumsTo1200(locals[r].index_D)
        /\ SumsTo1200(locals[r].index_E)

\* C2, amended: on such a series every method returns twelve entries; the non-null
\* entries sum to 1200 for Simple Averages, Link Relatives and Ratio-to-Median, for
\* Ratio-to-Trend when the frame has no trend_hat column (the fitted fallback trend),
\* and for Ratio-to-Moving-Average when the series has at least 13 rows; on exactly
\* twelve rows Ratio-to-Moving-Average returns twelve nulls.
C2_SumTo1200WhereDefined ==
    \A r \in RunIds : FullPositiveSeries(r) =>
        LET frame == locals[r].municipality_rows
        IN  /\ SumsTo1200(locals[r].index_A)
            /\ SumsTo1200(locals[r].index_D)
            /\ SumsTo1200(locals[r].index_E)
            /\ Len(locals[r].index_B) = 12
            /\ "trend_hat" \notin frame.cols => SumsTo1200(locals[r].index_B)
            /\ Len(frame.rows) >= 13 => SumsTo1200(locals[r].index_C)
            /\ Len(frame.rows) = 12 => AllTwelve(locals[r].index_C, NaN)

\* C2 witness: a pass over a full positive series of at least 13 rows without a trend
\* column, whose values are not all equal and whose moving-average index has a value.
C2_LongSeriesProcessed ==
    \E r \in RunIds :
        /\ FullPositiveSeries(r)
        /\ Len(locals[r].municipality_rows.rows) >= 13
        /\ "trend_hat" \notin locals[r].municipality_rows.cols
        /\ \E i \in 1 .. 12 : ~IsNaN(locals[r].index_C[i])
        /\ \E i \in 1 .. Len(locals[r].municipality_rows.rows) :
              locals[r].municipality_rows.rows[i].y # locals[r].municipality_rows.rows[1].y

\* ---- C3 ----
\* C3: with S the sum of the non-null entries of the input of
\* scale_base100_to_sum1200: if S is zero or not finite the output is the input;
\* otherwise every non-null entry x becomes x * 1200 / S, null entries stay null, and
\* the non-null entries of the output sum to 1200.
C3_ScaleContract ==
    scale_call.called =>
        LET x == scale_call.input
            out == scale_call.output
            S == NanSum(x)
        IN  IF (~IsFinite(S)) \/ S = R(0)
            THEN out = x
            ELSE /\ Len(out) = Len(x)
                 /\ \A i \in 1 .. Len(x) :
                       IF IsNaN(x[i]) THEN IsNaN(out[i])
                       ELSE out[i] = Div(Mul(x[i], R(1200)), S)
                 /\ NanSum(out) = R(1200)

\* C3 witness: a call on an array with a null entry, a negative entry and a finite
\* non-zero sum has returned.
C3_ScaledWithNulls ==
    /\ scale_call.called
    /\ IsFinite(NanSum(scale_call.input)) /\ NanSum(scale_call.input) # R(0)
    /\ \E i \in 1 .. 12 : IsNaN(scale_call.input[i])
    /\ \E i \in 1 .. 12 : IsFinite(scale_call.input[i]) /\ scale_call.input[i][1] < 0

\* ---- C4 ----
\* The column names the request requires that the raw frame does not have.
MissingColumns(req) ==
    ({req.municipality_col, req.year_month_col, req.metric_col}
        \cup (IF req.trend_hat_col # PyNone THEN {req.trend_hat_col} ELSE {}))
    \ req.raw_df.cols

MissingColumnMessages(col) ==
    {"Missing required column: " \o col, "Missing required metric column: " \o col,
     "trend_hat_col='" \o col \o "' not found in dataframe."}

\* C4, as stated: a run whose raw input lacks the municipality, the year-month or the
\* chosen metric column, or whose supplied trend column name is absent from the raw
\* input, ends with a validation error naming a missing column, before it has made a
\* run directory or any result.
C4_MissingColumnRaises ==
    \A r \in RunIds :
        (pc[r] \notin {"absent", "start"} /\ MissingColumns(request[r]) # {}) =>
            /\ pc[r] = "raised"
            /\ returned[r].kind = "ValueError"
            /\ \E col \in MissingColumns(request[r]) :
                  returned[r].message \in MissingColumnMessages(col)
            /\ run_id[r] = ""
            /\ results[r] = <<>>
            /\ canonical_dataframe[r] = NoFrame

\* ---- C5 ----
ParsesAsMonth(text) == \E year \in Years, month \in Months : text = YmText(year, month)
SpellsNumber(text) == \E n \in NumRange : text = ToString(n)

\* C5: the rows of the canonical frame are exactly the raw rows, in their order,
\* whose year-month parses as a date and whose metric is numeric; date and y of a
\* canonical row are never null and are the month and the number the raw row spells;
\* a row whose supplied trend cell is not numeric is kept, with a null trend_hat.
C5_KeptRowsAreTheValidRows ==
    \A r \in RunIds : Canonicalized(r) =>
        LET raw == request[r].raw_df.rows
            valid == SelectSeq(raw, LAMBDA row :
                                  ParsesAsMonth(row.year_month) /\ SpellsNumber(row.m))
            out == canonical_dataframe[r].rows
        IN  /\ Len(out) = Len(valid)
            /\ \A i \in 1 .. Len(out) :
                  /\ out[i].date # NaT
                  /\ IsFinite(out[i].y)
                  /\ out[i].municipality = valid[i].municipality
                  /\ YmText(YearOf(out[i].date), MonthOf(out[i].date)) = valid[i].year_month
                  /\ out[i].y[2] = 1 /\ ToString(out[i].y[1]) = valid[i].m
                  /\ (request[r].trend_hat_col = "trend" /\ ~SpellsNumber(valid[i].trend))
                        => IsNaN(out[i].trend_hat)

\* C5 witness: the adapter has dropped some rows of a frame and kept others, among
\* them a row whose supplied trend cell is not numeric.
C5_SomeDroppedSomeKept ==
    \E r \in RunIds :
        /\ Canonicalized(r)
        /\ request[r].trend_hat_col = "trend"
        /\ 0 < Len(canonical_dataframe[r].rows)
        /\ Len(canonical_dataframe[r].rows) < Len(request[r].raw_df.rows)
        /\ \E i \in 1 .. Len(canonical_dataframe[r].rows) :
              IsNaN(canonical_dataframe[r].rows[i].trend_hat)
        /\ \E i \in 1 .. Len(request[r].raw_df.rows) :
              ~SpellsNumber(request[r].raw_df.rows[i].m)
        /\ \E i \in 1 .. Len(request[r].raw_df.rows) :
              ~ParsesAsMonth(request[r].raw_df.rows[i].year_month)

\* ---- C6 ----
\* C6, as stated: the canonical frame has the columns date, municipality and y, and
\* the column trend_hat exactly when a trend column name was supplied; without a
\* supplied name Ratio-to-Trend works from its fitted fallback trend.
C6_TrendHatOnlyWhenNamed ==
    \A r \in RunIds : Canonicalized(r) =>
        /\ canonical_dataframe[r].cols \subseteq {"date", "municipality", "y", "trend_hat"}
        /\ {"date", "municipality", "y"} \subseteq canonical_dataframe[r].cols
        /\ "trend_hat" \in canonical_dataframe[r].cols <=> request[r].trend_hat_col # PyNone
        /\ (PassDone(r) /\ request[r].trend_hat_col = PyNone) =>
              locals[r].index_B =
                  ratio_to_trend([cols |-> locals[r].municipality_rows.cols \ {"trend_hat"},
                                  rows |-> locals[r].municipality_rows.rows])

\* ---- C7 ----
ResultFields ==
    {"A_simple_averages", "B_ratio_to_trend", "C_ratio_to_moving_average",
     "D_link_relatives", "E_ratio_to_median", "plot_files"}

\* C7: in what a run returns, every entry of results holds the five named index
\* arrays, each of twelve entries, and every entry of an array is a finite number or
\* null: never NaN, never an infinity.
C7_ResultsFiniteOrNull ==
    \A r \in RunIds : returned[r].kind = "value" =>
        \A e \in 1 .. Len(returned[r].results) :
            LET entry == returned[r].results[e][2]
            IN  /\ DOMAIN entry = ResultFields
                /\ \A k \in 1 .. 5 :
                      /\ Len(IndexArrays(entry)[k]) = 12
                      /\ \A i \in 1 .. 12 :
                            \/ IsFinite(IndexArrays(entry)[k][i])
                            \/ IsNone(IndexArrays(entry)[k][i])

\* C7 witness: a run has returned whose last group had an infinite and a NaN raw
\* index entry and a finite one.
C7_ReturnedAfterInfinity ==
    \E r \in RunIds :
        /\ returned[r].kind = "value"
        /\ \E i \in 1 .. 12 : IsInf(locals[r].index_A[i])
        /\ \E i \in 1 .. 12 : IsNaN(locals[r].index_A[i])
        /\ \E i \in 1 .. 12 : IsFinite(locals[r].index_D[i])

\* ---- C8 ----
\* Both runs have made their run directory under the same out_root.
BothUnderOneRoot(r1, r2) ==
    /\ r1 # r2
    /\ pc[r1] \in {"loop", "done"} /\ pc[r2] \in {"loop", "done"}
    /\ request[r1].out_root = request[r2].out_root

WrittenBy(r) == {p \in DOMAIN files : \E k \in 1 .. Len(files[p]) : files[p][k] = r}

\* C8, as stated: two runs with the same out_root always write to different run
\* subdirectories; no file is written by both.
C8_AlwaysDistinctRunDirs ==
    \A r1, r2 \in RunIds : BothUnderOneRoot(r1, r2) =>
        /\ run_dir(r1) # run_dir(r2)
        /\ WrittenBy(r1) \cap WrittenBy(r2) = {}

\* C8, amended: two runs with the same out_root whose clock readings differ in the
\* whole second (different run_id) write to different run subdirectories and share no
\* file; two runs that read the clock within the same second get the same run_id and
\* the same run directory.
C8_DistinctRunDirsAcrossSeconds ==
    \A r1, r2 \in RunIds : BothUnderOneRoot(r1, r2) =>
        IF run_id[r1] # run_id[r2]
        THEN /\ run_dir(r1) # run_dir(r2)
             /\ WrittenBy(r1) \cap WrittenBy(r2) = {}
        ELSE run_dir(r1) = run_dir(r2)

\* C8 witness: two runs under one out_root have both returned, with different run_id.
C8_TwoRunsInDifferentSeconds ==
    \E r1, r2 \in RunIds :
        /\ BothUnderOneRoot(r1, r2)
        /\ pc[r1] = "done" /\ pc[r2] = "done"
        /\ run_id[r1] # run_id[r2]
        /\ WrittenBy(r1) # {} /\ WrittenBy(r2) # {}

\* ---- C9 ----
\* C9: on a series of fewer than twelve rows ratio_to_moving_average returns twelve
\* nulls (and returns: the run goes on to store the entry), it does not raise.
C9_ShortSeriesAllNull ==
    \A r \in RunIds :
        (PassDone(r) /\ Len(locals[r].municipality_rows.rows) < 12) =>
            /\ AllTwelve(locals[r].index_C, NaN)
            /\ AllTwelve(DictGet(results[r], locals[r].municipality_name)
                            .C_ratio_to_moving_average, None)
            /\ pc[r] \in {"loop", "done"}

\* C9 witness: a pass over a series of eleven rows has completed.
C9_ElevenRowsProcessed ==
    \E r \in RunIds : PassDone(r) /\ Len(locals[r].municipality_rows.rows) = 11

\* ---- C10 ----
\* C10: in the prepared frame every row has month = the calendar month of its date,
\* in 1 .. 12, and time_index = (year - Y0) * 12 + (month - 1) with Y0 the smallest
\* year over all rows of the frame, so its time_index is its distance in months from
\* January of Y0 and rows of equal date have equal time_index.
C10_MonthAndTimeIndex ==
    \A r \in RunIds : Prepared(r) =>
        LET rows == monthly_dataframe[r].rows
            n == Len(rows)
        IN  \A i \in 1 .. n :
               /\ rows[i].month \in 1 .. 12
               /\ rows[i].month = (rows[i].date % 12) + 1
               /\ \E Y0 \in Years :
                     /\ \E j \in 1 .. n : rows[j].date \div 12 = Y0
                     /\ \A j \in 1 .. n : rows[j].date \div 12 >= Y0
                     /\ rows[i].time_index = rows[i].date - 12 * Y0
               /\ \A j \in 1 .. n :
                     rows[j].date = rows[i].date => rows[j].time_index = rows[i].time_index

\* C10 witness: a prepared frame in which a municipality's first year is later than
\* the frame's, and two municipalities have a row of the same date.
C10_LateMunicipalityPrepared ==
    \E r \in RunIds :
        /\ Prepared(r)
        /\ LET rows == monthly_dataframe[r].rows
           IN  \E i, j \in 1 .. Len(rows) :
                  /\ rows[i].municipality # rows[j].municipality
                  /\ rows[i].date = rows[j].date
                  /\ \E m \in 1 .. Len(rows) : \A k \in 1 .. Len(rows) :
                        rows[k].municipality = rows[i].municipality
                            => YearOf(rows[k].date) > YearOf(rows[m].date)

\* ---- C11 ----
Municipalities(rows) == {rows[i].municipality : i \in 1 .. Len(rows)}
GroupRows(rows, mun) == SelectSeq(rows, LAMBDA row : row.municipality = mun)
EarliestYear(rows) == MinOf({rows[i].date \div 12 : i \in 1 .. Len(rows)})
SmallestTimeIndex(rows) == MinOf({rows[i].time_index : i \in 1 .. Len(rows)})

\* The rows are N consecutive months, in order, the first of them a January.
ConsecutiveFromJanuary(rows) ==
    /\ Len(rows) > 0
    /\ rows[1].date % 12 = 0
    /\ \A k \in 1 .. Len(rows) : rows[k].date = rows[1].date + (k - 1)

BreaksChain(average_lr_percent) == IsNaN(average_lr_percent) \/ average_lr_percent = R(0)

\* C12: in link_relatives, before scaling, January's chained index is 100; for every
\* month m from February to December, if the average link relative of m or of an
\* earlier month from February on is null or exactly zero then the chained index of m
\* is null (the chain never resumes), otherwise chained[m] = chained[m-1] *
\* avgLR[m] / 100; the returned array is the scaled chained index.
C12_ChainBreaksAndStaysNull ==
    \A r \in RunIds : PassDone(r) =>
        LET avg == average_link_relative_by_month(locals[r].municipality_rows)
            chained == Chain(avg, 12)
        IN  /\ Len(chained) = 12
            /\ chained[1] = R(100)
            /\ \A m \in 2 .. 12 :
                  IF \E k \in 2 .. m : BreaksChain(avg[k])
                  THEN IsNaN(chained[m])
                  ELSE /\ IsFinite(chained[m])
                       /\ chained[m] = Div(Mul(chained[m - 1], avg[m]), R(100))
            /\ locals[r].index_D = scale_base100_to_sum1200(chained)

\* C12 witness: a pass over a series whose chain holds a value in February, breaks
\* in a later month and is followed by a month whose average link relative has a
\* value.
C12_BrokenChainProcessed ==
    \E r \in RunIds :
        /\ PassDone(r)
        /\ LET avg == average_link_relative_by_month(locals[r].municipality_rows)
           IN  /\ ~BreaksChain(avg[2])
               /\ \E m \in 3 .. 11 :
                     /\ BreaksChain(avg[m])
                     /\ \E later \in (m + 1) .. 12 : ~BreaksChain(avg[later])
        /\ \E m \in 1 .. 12 : IsNaN(locals[r].index_D[m])

\* ---- C13 ----
\* C13, as stated: for every group the loop processes, "OVERALL" included, the rows
\* handed to link_relatives are in non-decreasing date order, so that every link
\* relative is the ratio of an observation to the chronologically preceding one.
C13_RowsInDateOrder ==
    \A r \in RunIds : PassDone(r) =>
        LET rows == locals[r].municipality_rows.rows
        IN  \A i \in 1 .. (Len(rows) - 1) : rows[i].date <= rows[i + 1].date

\* ---- C14 ----
\* The 2 x 12 moving average centred on position t: the six observations before t and
\* the six after it, the two end observations at half weight.
SymmetricAverage12(y, t) ==
    Div(Add(Add(Div(y[t - 6], R(2)), SumSeq(SubSeq(y, t - 5, t + 5))),
            Div(y[t + 6], R(2))),
        R(12))

\* C14, as stated: in ratio_to_moving_average the centred 12-month moving average of
\* the row at chronological position t is the average of a window symmetric around t
\* (six observations before, six after, the two end ones at half weight), and it
\* exists exactly at the positions that have that full window.
C14_WindowSymmetricAroundRow ==
    \A r \in RunIds : PassDone(r) =>
        LET y == Column(StableSort(locals[r].municipality_rows.rows, <<"date">>), "y")
            centered_moving_average_12 == centered_moving_average_even_window(y, 12)
        IN  \A t \in 1 .. Len(y) :
               IF 7 <= t /\ t + 6 <= Len(y)
               THEN centered_moving_average_12[t] = SymmetricAverage12(y, t)
               ELSE IsNaN(centered_moving_average_12[t])

\* ---- C15 ----
ZeroOrNonFinite(x) == (~IsFinite(x)) \/ x = R(0)

\* C15: in ratio_to_median, with the monthly medians (null for a month without rows)
\* and their median M over the non-null ones: when M is zero or not finite the
\* pre-scale index is the array of raw monthly medians and the returned array is the
\* scaling of those raw medians (the raw medians themselves when their sum is zero
\* or not finite); otherwise the pre-scale index is month median / M * 100, null for
\* absent months, and the returned array is its scaling.
C15_MedianFallback ==
    \A r \in RunIds : PassDone(r) =>
        LET rows == locals[r].municipality_rows.rows
            monthly_medians == MedianByMonth(Column(rows, "month"), Column(rows, "y"))
            M == NanMedian(monthly_medians)
        IN  /\ \A m \in 1 .. 12 :
                  IsNaN(monthly_medians[m]) <=> ~\E i \in 1 .. Len(rows) : rows[i].month = m
            /\ IF ZeroOrNonFinite(M)
               THEN /\ locals[r].index_E = scale_base100_to_sum1200(monthly_medians)
                    /\ ZeroOrNonFinite(NanSum(monthly_medians))
                          => locals[r].index_E = monthly_medians
               ELSE locals[r].index_E =
                       scale_base100_to_sum1200(
                           Vec([m \in 1 .. 12 |->
                                   IF IsNaN(monthly_medians[m]) THEN NaN
                                   ELSE Div(Mul(monthly_medians[m], R(100)), M)]))

\* C15 witness: a pass over a series whose monthly medians have the median zero and
\* a sum that is finite and not zero, so that the raw medians are scaled.
C15_ZeroMedianProcessed ==
    \E r \in RunIds :
        /\ PassDone(r)
        /\ LET rows == locals[r].municipality_rows.rows
               monthly_medians == MedianByMonth(Column(rows, "month"), Column(rows, "y"))
           IN  /\ NanMedian(monthly_medians) = R(0)
               /\ ~ZeroOrNonFinite(NanSum(monthly_medians))
               /\ locals[r].index_E # monthly_medians

\* ---- C16 ----
\* The entry holds the JSON-safe indices of the five methods on the frame.
HoldsIndicesOf(entry, frame) ==
    /\ entry.A_simple_averages = json_safe_list(simple_averages(frame))
    /\ entry.B_ratio_to_trend = json_safe_list(ratio_to_trend(frame))
    /\ \E sorted \in sort_values_date(frame.rows) :
          entry.C_ratio_to_moving_average = json_safe_list(ratio_to_moving_average(sorted))
    /\ entry.D_link_relatives = json_safe_list(link_relatives(frame))
    /\ entry.E_ratio_to_median = json_safe_list(ratio_to_median(frame))

\* C16, as stated: the returned results have exactly 1 + (number of distinct
\* municipality values) entries, and the "OVERALL" entry holds the indices computed
\* from the complete prepared series, also when a municipality is named "OVERALL".
C16_OverallEntryOfAllRows ==
    \A r \in RunIds : returned[r].kind = "value" =>
        /\ Len(returned[r].results)
              = 1 + Cardinality(Municipalities(monthly_dataframe[r].rows))
        /\ "OVERALL" \in DictKeys(returned[r].results)
        /\ HoldsIndicesOf(DictGet(returned[r].results, "OVERALL"), monthly_dataframe[r])

=============================================================================
